---- MODULE Spec2Model ----
(***************************************************************************)
(* Model of the fill-rate archiver (src/scripts/archive-fillrate.js) and   *)
(* of the vendor session wrapper of the generator (src/generate.mjs).      *)
(*                                                                         *)
(* Conventions                                                             *)
(*  - a JavaScript string is a sequence of one-character strings;          *)
(*  - a calendar date is its day number inside one month (all modelled     *)
(*    dates fall in the same logs/YYYY/MM directory);                      *)
(*  - a fill rate is counted in tenths (5 stands for 0.5);                 *)
(*  - a JavaScript number is [t |-> "fin" | "nan" | "inf", v |-> n].       *)
(***************************************************************************)
EXTENDS Integers, Sequences, FiniteSets, TLC

\* ------------------------------------------------------------------ bounds

\* Longest feed (day-records) and most rows over all its day-records.
MaxDays == 2
MaxRows == 2
\* Invocations of the archiver's main() in one behaviour.
MaxRuns == 3
\* Requests the generator's main() issues in one behaviour (30 days x 42 screens
\* in the source, cut to a prefix of that loop).
MaxRequests == 2

\* ------------------------------------------------------------- JS values

Null == [t |-> "null", v |-> 0]
NaN == [t |-> "nan", v |-> 0]
Infinity == [t |-> "inf", v |-> 0]
Fin(n) == [t |-> "fin", v |-> n]

\* Raw JSON values of a row's fill_rate field.
JNum(n) == [k |-> "num", n |-> n, s |-> ""]
JStr(s) == [k |-> "str", n |-> 0, s |-> s]

\* Number(x): a JSON number is itself; a string is parsed by StringToNumber, which
\* accepts decimal text and the word Infinity, and yields NaN for anything else.
ToNumber(x) ==
    CASE x.k = "num" -> Fin(x.n)
      [] x.k = "str" /\ x.s = "Infinity" -> Infinity
      [] x.k = "str" /\ x.s = "0.7" -> Fin(7)
      [] OTHER -> NaN

\* Number.isNaN(v)
IsNaN(v) == v.t = "nan"

\* typeof v === "number" (NaN and Infinity are numbers; undefined is not)
IsTypeofNumber(v) == v.t \in {"fin", "nan", "inf"}

Undefined == [t |-> "undefined", v |-> 0]

\* ------------------------------------------------------------ JS strings

WhiteSpace == {" "}

RECURSIVE TrimStart(_)
TrimStart(s) == IF s # <<>> /\ Head(s) \in WhiteSpace THEN TrimStart(Tail(s)) ELSE s

RECURSIVE TrimEnd(_)
TrimEnd(s) ==
    IF s # <<>> /\ s[Len(s)] \in WhiteSpace THEN TrimEnd(SubSeq(s, 1, Len(s) - 1)) ELSE s

\* String.prototype.trim
Trim(s) == TrimEnd(TrimStart(s))

\* A row's du_name field: absent (null or undefined) or a string.
NoName == [k |-> "null", s |-> <<>>]
NameStr(s) == [k |-> "str", s |-> s]

\* String(rec?.du_name ?? "").trim()
ScreenName(rec) == Trim(IF rec.du_name.k = "null" THEN <<>> ELSE rec.du_name.s)

\* ----------------------------------------------------------------- dates

\* A day-record's date field: a date-only ISO string (UTC midnight of day d), an
\* ISO date-time with a zone offset (hour h of day d, off hours east of UTC), or
\* text that is no date.
DateOnly(d) == [k |-> "date", d |-> d, h |-> 0, off |-> 0]
DateTime(d, h, off) == [k |-> "datetime", d |-> d, h |-> h, off |-> off]
DateText == [k |-> "text", d |-> 0, h |-> 0, off |-> 0]

\* Number.isNaN(+new Date(x))
DateIsInvalid(x) == x.k = "text"

\* new Date(x).toISOString().slice(0,10): the UTC calendar day of the instant
ToISODate(x) == x.d + ((x.h - x.off) \div 24)

\* -------------------------------------------------------- functions, maps

Put(f, k, v) == [x \in (DOMAIN f) \cup {k} |-> IF x = k THEN v ELSE f[x]]

EmptyFn == [x \in {} |-> 0]

\* map?.[s]?.[iso]
MapGet(map, s, iso) ==
    IF s \in DOMAIN map /\ iso \in DOMAIN map[s] THEN map[s][iso] ELSE Undefined

\* -------------------------------------------------------------- normalize

\* NormalizeRec without the seen set: the name is pushed at every row.
NormalizeRecNoSeen(acc, iso, rec) ==
    LET name == ScreenName(rec)
        v == ToNumber(rec.fill_rate)
        inner == IF name \in DOMAIN acc.map THEN acc.map[name] ELSE EmptyFn
    IN  IF name = <<>> THEN acc
        ELSE [acc EXCEPT !.screens = Append(acc.screens, name),
                         !.map = IF ~IsNaN(v)
                                 THEN Put(acc.map, name, Put(inner, iso, v))
                                 ELSE acc.map]

\* One row of a day-record, lines 60-69: the accumulated {screens, map} after it.
NormalizeRec(acc, iso, rec) ==
    LET name == ScreenName(rec)
        v == ToNumber(rec.fill_rate)
        screens1 == IF \E i \in 1..Len(acc.screens) : acc.screens[i] = name
                    THEN acc.screens
                    ELSE Append(acc.screens, name)
        inner == IF name \in DOMAIN acc.map THEN acc.map[name] ELSE EmptyFn
    IN  IF name = <<>> THEN acc
        ELSE [acc EXCEPT !.screens = screens1,
                         !.map = IF ~IsNaN(v)
                                 THEN Put(acc.map, name, Put(inner, iso, v))
                                 ELSE acc.map]

RECURSIVE NormalizeRows(_, _, _)
NormalizeRows(acc, iso, rows) ==
    IF rows = <<>> THEN acc
    ELSE NormalizeRows(NormalizeRec(acc, iso, Head(rows)), iso, Tail(rows))

\* NormalizeDay with the date test after the rows: only the push of the date is
\* skipped for a date that does not parse.
NormalizeDayRowsFirst(acc, day) ==
    LET iso == ToISODate(day.date)
        withDate == IF DateIsInvalid(day.date) THEN acc
                    ELSE [acc EXCEPT !.dates = Append(acc.dates, iso)]
    IN  NormalizeRows(withDate, iso, day.rows)

\* One day-record, lines 54-70.
NormalizeDay(acc, day) ==
    IF DateIsInvalid(day.date) THEN acc
    ELSE LET iso == ToISODate(day.date)
         IN  NormalizeRows([acc EXCEPT !.dates = Append(acc.dates, iso)], iso, day.rows)

RECURSIVE NormalizeDays(_, _)
NormalizeDays(acc, days) ==
    IF days = <<>> THEN acc
    ELSE NormalizeDays(NormalizeDay(acc, Head(days)), Tail(days))

\* A parsed body is [shape, generated_at, result]: shape "feed" when result is
\* an array of day-records, "other" when the body is any other JSON value.
\* !raw || !Array.isArray(raw.result) is the negation of ShapeOk.
ShapeOk(raw) == raw.shape = "feed"

normalize(raw) ==
    LET acc == NormalizeDays([dates |-> <<>>, screens |-> <<>>, map |-> EmptyFn], raw.result)
    IN  [dates |-> acc.dates, screens |-> acc.screens, map |-> acc.map,
         source_generated_at |-> raw.generated_at]

\* -------------------------------------------------------------- JS objects

(* An ordinary object is its own string keys in insertion order and their     *)
(* values.  Object.keys / Object.entries list the keys that are array indices *)
(* first, in ascending numeric order, then the other keys in insertion order. *)
EmptyObj == [keys |-> <<>>, val |-> EmptyFn]

ObjSet(o, k, v) ==
    IF k \in DOMAIN o.val
    THEN [o EXCEPT !.val = Put(o.val, k, v)]
    ELSE [keys |-> Append(o.keys, k), val |-> Put(o.val, k, v)]

Digits == {"0", "1", "2", "3", "4", "5", "6", "7", "8", "9"}

DigitVal(c) ==
    CASE c = "0" -> 0 [] c = "1" -> 1 [] c = "2" -> 2 [] c = "3" -> 3 [] c = "4" -> 4
      [] c = "5" -> 5 [] c = "6" -> 6 [] c = "7" -> 7 [] c = "8" -> 8 [] c = "9" -> 9

\* a < b for two strings of digits of the same length
RECURSIVE DigitsLess(_, _)
DigitsLess(a, b) ==
    IF a = <<>> THEN FALSE
    ELSE IF DigitVal(Head(a)) # DigitVal(Head(b)) THEN DigitVal(Head(a)) < DigitVal(Head(b))
         ELSE DigitsLess(Tail(a), Tail(b))

\* a < b for two canonical numeric strings
NumericLess(a, b) == Len(a) < Len(b) \/ (Len(a) = Len(b) /\ DigitsLess(a, b))

\* 2^32 - 1, the first integer that is no array index
IndexLimit == <<"4", "2", "9", "4", "9", "6", "7", "2", "9", "5">>

\* A canonical numeric string below 2^32 - 1.
IsArrayIndex(s) ==
    /\ s # <<>>
    /\ \A i \in 1..Len(s) : s[i] \in Digits
    /\ (Len(s) = 1 \/ s[1] # "0")
    /\ NumericLess(s, IndexLimit)

RECURSIVE SelectSeqBy(_, _)
SelectSeqBy(s, keep) ==
    IF s = <<>> THEN <<>>
    ELSE IF Head(s) \in keep THEN <<Head(s)>> \o SelectSeqBy(Tail(s), keep)
         ELSE SelectSeqBy(Tail(s), keep)

RECURSIVE AscendingIndices(_)
AscendingIndices(S) ==
    IF S = {} THEN <<>>
    ELSE LET m == CHOOSE x \in S : \A y \in S : ~NumericLess(y, x)
         IN  <<m>> \o AscendingIndices(S \ {m})

\* Object.keys(o)
OwnKeys(o) ==
    LET idx == {k \in DOMAIN o.val : IsArrayIndex(k)}
    IN  AscendingIndices(idx) \o SelectSeqBy(o.keys, (DOMAIN o.val) \ idx)

\* --------------------------------------------------------- snapshotForDate

RECURSIVE SnapshotLoop(_, _, _, _)
SnapshotLoop(out, screens, map, iso) ==
    IF screens = <<>> THEN out
    ELSE LET s == Head(screens)
             v == MapGet(map, s, iso)
         IN  SnapshotLoop(IF IsTypeofNumber(v) THEN ObjSet(out, s, v) ELSE out,
                          Tail(screens), map, iso)

\* snapshotForDate writing 0 for a screen without a value.
RECURSIVE SnapshotLoopFill(_, _, _, _)
SnapshotLoopFill(out, screens, map, iso) ==
    IF screens = <<>> THEN out
    ELSE LET s == Head(screens)
             v == MapGet(map, s, iso)
         IN  SnapshotLoopFill(ObjSet(out, s, IF IsTypeofNumber(v) THEN v ELSE Fin(0)),
                              Tail(screens), map, iso)

snapshotFillZero(norm, iso) == SnapshotLoopFill(EmptyObj, norm.screens, norm.map, iso)

snapshotForDate(norm, iso) == SnapshotLoop(EmptyObj, norm.screens, norm.map, iso)

\* ---------------------------------------------------------------- toCSVRows

\* Primary weights of the Icelandic collation for the modelled characters:
\* space and punctuation, digits, then the letters, the accented vowel (written
\* "A'" here, one character of the name) a letter of its own between its base
\* letter and the next one.  In UTF-16 code-unit order it follows "B".
CollationWeight(c) ==
    CASE c = " " -> 0
      [] c = "," -> 1
      [] c \in Digits -> 2 + DigitVal(c)
      [] c = "A" -> 20
      [] c = "A'" -> 21
      [] c = "B" -> 22
      [] OTHER -> 30

\* a.localeCompare(b, 'is'): negative, zero or positive
RECURSIVE localeCompare(_, _)
localeCompare(a, b) ==
    IF a = <<>> /\ b = <<>> THEN 0
    ELSE IF a = <<>> THEN -1
    ELSE IF b = <<>> THEN 1
    ELSE IF CollationWeight(Head(a)) < CollationWeight(Head(b)) THEN -1
    ELSE IF CollationWeight(Head(a)) > CollationWeight(Head(b)) THEN 1
    ELSE localeCompare(Tail(a), Tail(b))

CompareFn(a, b) == localeCompare(a, b)

\* Array.prototype.sort with CompareFn (stable): insertion of x after the last
\* element that does not compare greater.
RECURSIVE InsertSorted(_, _)
InsertSorted(s, x) ==
    IF s = <<>> THEN <<x>>
    ELSE IF CompareFn(x, Head(s)) < 0 THEN <<x>> \o s
         ELSE <<Head(s)>> \o InsertSorted(Tail(s), x)

RECURSIVE SortKeys(_)
SortKeys(s) ==
    IF s = <<>> THEN <<>>
    ELSE InsertSorted(SortKeys(SubSeq(s, 1, Len(s) - 1)), s[Len(s)])

RECURSIVE DoubleQuotes(_)
DoubleQuotes(f) ==
    IF f = <<>> THEN <<>>
    ELSE (IF Head(f) = "\"" THEN <<"\"", "\"">> ELSE <<Head(f)>>) \o DoubleQuotes(Tail(f))

\* basic CSV escaping, lines 95-98
CsvEscape(f) ==
    IF \E i \in 1..Len(f) : f[i] \in {"\"", ",", "\n"}
    THEN <<"\"">> \o DoubleQuotes(f) \o <<"\"">>
    ELSE f

\* String(v) of a number: its decimal text, or the word Infinity / NaN
NumberToString(v) ==
    CASE v.t = "fin" -> [text |-> "decimal", v |-> v.v]
      [] v.t = "inf" -> [text |-> "Infinity", v |-> 0]
      [] OTHER -> [text |-> "NaN", v |-> 0]

CsvHeader == <<"date", "screen", "fill_rate">>

\* The text of the CSV: the header line and one line per screen.
toCSVRows(iso, obj) ==
    LET screens == SortKeys(OwnKeys(obj))
    IN  [header |-> CsvHeader,
         rows |-> [i \in 1..Len(screens) |->
                      [date |-> iso,
                       screen |-> CsvEscape(screens[i]),
                       fill_rate |-> NumberToString(obj.val[screens[i]])]]]

\* ------------------------------------------------------------- JSON payload

\* JSON.stringify of a number: NaN and the infinities are written null.
JsonNumber(v) == IF v.t = "fin" THEN v ELSE Null

\* Lines 117-128: the payload as JSON.stringify writes it.
PayloadJson(iso, norm, dataToday, urlList, now) ==
    LET keys == OwnKeys(dataToday)
    IN  [date |-> iso,
         generated_at |-> norm.source_generated_at,
         count |-> Len(keys),
         rows |-> [i \in 1..Len(keys) |->
                      [screen |-> keys[i], fill_rate |-> JsonNumber(dataToday.val[keys[i]])]],
         meta |-> [source_urls |-> urlList, archived_at_utc |-> now]]

\* ------------------------------------------------------------------- inputs

\* du_name fields of the feeds: missing, blank, padded and plain names, and a
\* name that is a canonical array index.
RawNames ==
    {NoName, NameStr(<<" ">>), NameStr(<<"B">>), NameStr(<<" ", "A">>), NameStr(<<"A">>)}

OrderNames == {NameStr(<<"B">>), NameStr(<<"A'">>), NameStr(<<"A">>), NameStr(<<"2">>)}

\* fill_rate fields: a number, numeric text, text that is no number, Infinity.
RawValues == {JNum(5), JStr("0.7"), JStr("bad"), JStr("Infinity")}

OrderValues == {JNum(5), JStr("bad")}

\* date fields: day 1; 23:00 of day 1 five hours west of UTC, which is day 2 in
\* UTC; text that is no date.
DateInputs == {DateOnly(1), DateTime(1, 23, -5), DateText}

\* The UTC dates an archiver run can start on.
Days == {1, 2}

RECURSIVE SeqsOfLen(_, _)
SeqsOfLen(S, n) ==
    IF n = 0 THEN {<<>>}
    ELSE {Append(s, x) : s \in SeqsOfLen(S, n - 1), x \in S}

\* The feeds of at most nDays day-records holding at most nRows rows in all.
RECURSIVE FeedsOf(_, _, _)
FeedsOf(Rows, nDays, nRows) ==
    IF nDays = 0 THEN {<<>>}
    ELSE {<<>>} \cup
         UNION {
           {<<[date |-> d, rows |-> rs]>> \o rest :
               d \in DateInputs, rs \in SeqsOfLen(Rows, k),
               rest \in FeedsOf(Rows, nDays - 1, nRows - k)}
           : k \in 0..nRows }

Body(shape, tag, result) == [shape |-> shape, generated_at |-> tag, result |-> result]

\* What the sources serve in the full archiver: a body of another shape, an
\* empty feed, and feeds for either day with a gap.
ArchiveFeeds ==
    { <<>>,
      <<[date |-> DateOnly(1),
         rows |-> <<[du_name |-> NameStr(<<"B">>), fill_rate |-> JNum(5)],
                    [du_name |-> NameStr(<<"A">>), fill_rate |-> JStr("bad")]>>]>>,
      <<[date |-> DateTime(1, 23, -5),
         rows |-> <<[du_name |-> NameStr(<<"B">>), fill_rate |-> JStr("0.7")]>>]>> }

\* --------------------------------------------------------------- the state

VARIABLES
    env,          \* the ids of the SOURCE_URL_* variables that are set
    served,       \* [shape, result]: the body the sources answer with
    fsDir,        \* whether logs/YYYY/MM exists
    fsJson,       \* date -> the file logs/YYYY/MM/<date>.json
    fsCsv,        \* date -> the file logs/YYYY/MM/<date>.csv
    run,          \* number of archiver processes started so far
    dateISO,      \* the UTC date of the current archiver process
    pc,           \* where main() of the current process stands
    u,            \* getJSON: index of the candidate the loop is at
    errs,         \* getJSON: the failures recorded so far
    raw,          \* main: the body getJSON returned
    norm,         \* main: normalize(raw)
    dataToday,    \* main: snapshotForDate(norm, dateISO)
    exitCode,     \* the exit status of the process once pc = "exited"
    error,        \* the error main().catch reported, if any
    attempts,     \* history: the candidates fetch was called on, in call order
    sawJson,      \* history: what fs.existsSync(outJson) answered in this process
    writes        \* history: [run, date, file] of each writeFileSync that touched a file

avars == <<env, served, fsDir, fsJson, fsCsv, run, dateISO, pc, u, errs, raw, norm,
           dataToday, exitCode, error, attempts, sawJson, writes>>

\* The generator (src/generate.mjs).
VARIABLES
    configOk,       \* whether BROADSIGN_BASE, _EMAIL and _PASSWORD are all set
    sessionCookie,  \* the module-level session cookie, "null" when there is none
    gpc,            \* where the generator's main() stands
    req,            \* number of getFillForScreen calls started so far
    retried,        \* direct(): the retried argument of the current call
    relogin,        \* direct(): whether the login in progress is the one of line 93
    sends,          \* history: fetches of the current request's path
    logins,         \* history: login() calls made for the current request
    relogins,       \* history: login() calls of line 93 made for the current request
    statuses,       \* history: the statuses answered to the current request
    loginFailed,    \* history: whether a login() of the current request threw
    rows,           \* the rows main() has pushed
    gexit,          \* the exit status of the process once gpc = "exited"
    gerror          \* the error the process ended with, if any

gvars == <<configOk, sessionCookie, gpc, req, retried, relogin, sends, logins, relogins,
           statuses, loginFailed, rows, gexit, gerror>>

\* const urls = [PRIMARY, FALLBACK_1, FALLBACK_2].filter(Boolean), lines 13-17
NumUrls == 3

RECURSIVE FilterSet(_, _)
FilterSet(n, S) ==
    IF n = 0 THEN <<>>
    ELSE FilterSet(n - 1, S) \o (IF n \in S THEN <<n>> ELSE <<>>)

urls == FilterSet(NumUrls, env)

Absent == [st |-> "absent", data |-> Null]
Partial == [st |-> "partial", data |-> Null]
File(data) == [st |-> "full", data |-> data]

\* fs.existsSync(outJson)
ExistsJson == fsJson[dateISO].st # "absent"

NoRaw == Body("none", Null, <<>>)
NoNorm == [dates |-> <<>>, screens |-> <<>>, map |-> EmptyFn, source_generated_at |-> Undefined]
NoError == [kind |-> "none", errs |-> <<>>]

Locals0 ==
    /\ u = 1 /\ errs = <<>> /\ raw = NoRaw /\ norm = NoNorm /\ dataToday = EmptyObj
    /\ error = NoError /\ attempts = <<>> /\ sawJson = FALSE

Fs0 ==
    /\ fsDir = FALSE
    /\ fsJson = [d \in Days |-> Absent]
    /\ fsCsv = [d \in Days |-> Absent]
    /\ writes = {}

\* main().catch: report and process.exit(1), lines 137-140
Throw(kind, list) ==
    /\ pc' = "exited"
    /\ exitCode' = 1
    /\ error' = [kind |-> kind, errs |-> list]

\* --------------------------------------------------- the archiver's main()

afs == <<fsDir, fsJson, fsCsv, writes>>
alocals == <<u, errs, raw, norm, dataToday, attempts, sawJson>>

\* A new process: the module-level constants (lines 13-27) are computed, the UTC
\* date being that of the process's start, and main() is called.
StartRun ==
    /\ pc \in {"idle", "exited"}
    /\ run < MaxRuns
    /\ run' = run + 1
    /\ \E d \in Days : d >= dateISO /\ dateISO' = d
    /\ pc' = "check"
    /\ exitCode' = 0
    /\ u' = 1 /\ errs' = <<>> /\ raw' = NoRaw /\ norm' = NoNorm /\ dataToday' = EmptyObj
    /\ error' = NoError /\ attempts' = <<>> /\ sawJson' = FALSE
    /\ UNCHANGED <<env, served, afs>>
    /\ UNCHANGED gvars

\* Check testing the CSV artifact instead of the JSON one.
CheckCsv ==
    /\ pc = "check"
    /\ sawJson' = (fsCsv[dateISO].st # "absent")
    /\ IF fsCsv[dateISO].st # "absent"
       THEN pc' = "exited" /\ exitCode' = 0
       ELSE pc' = "fetch" /\ exitCode' = exitCode
    /\ UNCHANGED <<env, served, afs, run, dateISO, u, errs, raw, norm, dataToday, error,
                   attempts>>
    /\ UNCHANGED gvars

\* Lines 104-107: bail out when the snapshot of the day is already archived.
Check ==
    /\ pc = "check"
    /\ sawJson' = ExistsJson
    /\ IF ExistsJson
       THEN pc' = "exited" /\ exitCode' = 0
       ELSE pc' = "fetch" /\ exitCode' = exitCode
    /\ UNCHANGED <<env, served, afs, run, dateISO, u, errs, raw, norm, dataToday, error,
                   attempts>>
    /\ UNCHANGED gvars

\* The reasons one attempt of getJSON fails with: the transport, a status that
\* is not 2xx, a body that is no JSON (lines 34-38).
FailReasons == {"fetch failed", "HTTP 500", "Unexpected token"}

\* getJSON, lines 31-36: the candidate answers 2xx with a JSON body.
FetchOk ==
    /\ pc = "fetch"
    /\ u <= Len(urls)
    /\ attempts' = Append(attempts, urls[u])
    /\ raw' = Body(served.shape, urls[u], served.result)
    /\ pc' = "normalize"
    /\ UNCHANGED <<env, served, afs, run, dateISO, u, errs, norm, dataToday, exitCode,
                   error, sawJson>>
    /\ UNCHANGED gvars

\* FetchFail recording the failure at the front of errs.
FetchFailUnshift ==
    /\ pc = "fetch"
    /\ u <= Len(urls)
    /\ \E why \in FailReasons :
         errs' = <<[url |-> urls[u], message |-> why]>> \o errs
    /\ attempts' = Append(attempts, urls[u])
    /\ u' = u + 1
    /\ UNCHANGED <<env, served, afs, run, dateISO, pc, raw, norm, dataToday, exitCode,
                   error, sawJson>>
    /\ UNCHANGED gvars

\* getJSON, lines 37-39: the attempt throws; the reason is recorded and the loop
\* goes on to the next candidate.
FetchFail ==
    /\ pc = "fetch"
    /\ u <= Len(urls)
    /\ \E why \in FailReasons :
         errs' = Append(errs, [url |-> urls[u], message |-> why])
    /\ attempts' = Append(attempts, urls[u])
    /\ u' = u + 1
    /\ UNCHANGED <<env, served, afs, run, dateISO, pc, raw, norm, dataToday, exitCode,
                   error, sawJson>>
    /\ UNCHANGED gvars

\* getJSON, line 41: the list is exhausted.
FetchAllFailed ==
    /\ pc = "fetch"
    /\ u > Len(urls)
    /\ Throw("All sources failed", errs)
    /\ UNCHANGED <<env, served, afs, run, dateISO, alocals>>
    /\ UNCHANGED gvars

\* Lines 110-111: normalize and snapshotForDate; normalize throws on a body of
\* another shape (lines 46-48).
Normalize ==
    /\ pc = "normalize"
    /\ IF ShapeOk(raw)
       THEN /\ norm' = normalize(raw)
            /\ dataToday' = snapshotForDate(normalize(raw), dateISO)
            /\ pc' = "mkdir"
            /\ UNCHANGED <<exitCode, error>>
       ELSE /\ Throw("Unsupported JSON shape", <<>>)
            /\ UNCHANGED <<norm, dataToday>>
    /\ UNCHANGED <<env, served, afs, run, dateISO, u, errs, raw, attempts, sawJson>>
    /\ UNCHANGED gvars

\* Line 114: fs.mkdirSync(outDir, {recursive: true})
Mkdir ==
    /\ pc = "mkdir"
    /\ fsDir' = TRUE
    /\ pc' = "writeJson"
    /\ UNCHANGED <<env, served, fsJson, fsCsv, writes, run, dateISO, alocals, exitCode, error>>
    /\ UNCHANGED gvars

MkdirFail ==
    /\ pc = "mkdir"
    /\ Throw("mkdir", <<>>)
    /\ UNCHANGED <<env, served, afs, run, dateISO, alocals>>
    /\ UNCHANGED gvars

\* Lines 117-129: the JSON snapshot is written.
WriteJson ==
    /\ pc = "writeJson"
    /\ fsJson' = [fsJson EXCEPT
                    ![dateISO] = File(PayloadJson(dateISO, norm, dataToday, urls, run))]
    /\ writes' = writes \cup {[run |-> run, date |-> dateISO, file |-> "json"]}
    /\ pc' = "writeCsv"
    /\ UNCHANGED <<env, served, fsDir, fsCsv, run, dateISO, alocals, exitCode, error>>
    /\ UNCHANGED gvars

\* fs.writeFileSync throws: either the file could not be opened and is left as
\* it was, or it was created and the data was written in part.
WriteJsonFail ==
    /\ pc = "writeJson"
    /\ \/ UNCHANGED <<fsJson, writes>>
       \/ /\ fsJson' = [fsJson EXCEPT ![dateISO] = Partial]
          /\ writes' = writes \cup {[run |-> run, date |-> dateISO, file |-> "json"]}
    /\ Throw("write json", <<>>)
    /\ UNCHANGED <<env, served, fsDir, fsCsv, run, dateISO, alocals>>
    /\ UNCHANGED gvars

\* Lines 132-134: the CSV is written and main() returns.
WriteCsv ==
    /\ pc = "writeCsv"
    /\ fsCsv' = [fsCsv EXCEPT ![dateISO] = File(toCSVRows(dateISO, dataToday))]
    /\ writes' = writes \cup {[run |-> run, date |-> dateISO, file |-> "csv"]}
    /\ pc' = "exited"
    /\ exitCode' = 0
    /\ UNCHANGED <<env, served, fsDir, fsJson, run, dateISO, alocals, error>>
    /\ UNCHANGED gvars

WriteCsvFail ==
    /\ pc = "writeCsv"
    /\ \/ UNCHANGED <<fsCsv, writes>>
       \/ /\ fsCsv' = [fsCsv EXCEPT ![dateISO] = Partial]
          /\ writes' = writes \cup {[run |-> run, date |-> dateISO, file |-> "csv"]}
    /\ Throw("write csv", <<>>)
    /\ UNCHANGED <<env, served, fsDir, fsJson, run, dateISO, alocals>>
    /\ UNCHANGED gvars

\* ------------------------------------------------- the generator's main()

Request0 ==
    /\ retried = FALSE /\ relogin = FALSE /\ sends = 0 /\ logins = 0 /\ relogins = 0
    /\ statuses = <<>> /\ loginFailed = FALSE

GInit ==
    /\ configOk \in BOOLEAN
    /\ sessionCookie = "null"
    /\ gpc = "start" /\ req = 0 /\ rows = <<>> /\ gexit = 0 /\ gerror = "none"
    /\ Request0

\* Lines 12-15: without its three environment variables the process exits at once.
Startup ==
    /\ gpc = "start"
    /\ IF configOk
       THEN gpc' = "loop" /\ UNCHANGED <<gexit, gerror>>
       ELSE gpc' = "exited" /\ gexit' = 1 /\ gerror' = "Missing environment variables"
    /\ UNCHANGED <<configOk, sessionCookie, req, retried, relogin, sends, logins, relogins, statuses,
                   loginFailed, rows>>
    /\ UNCHANGED avars

\* Lines 139-143: the next (date, screen) of the nested loop; getFillForScreen
\* calls direct(path, options) with retried = false.
BeginRequest ==
    /\ gpc = "loop"
    /\ req < MaxRequests
    /\ req' = req + 1
    /\ retried' = FALSE /\ relogin' = FALSE /\ sends' = 0 /\ logins' = 0 /\ relogins' = 0
    /\ statuses' = <<>> /\ loginFailed' = FALSE
    /\ gpc' = "direct"
    /\ UNCHANGED <<configOk, sessionCookie, rows, gexit, gerror>>
    /\ UNCHANGED avars

\* Line 82: if (!sessionCookie) await login()
DirectEntry ==
    /\ gpc = "direct"
    /\ gpc' = IF sessionCookie = "null" THEN "login" ELSE "send"
    /\ UNCHANGED <<configOk, sessionCookie, req, retried, relogin, sends, logins, relogins, statuses,
                   loginFailed, rows, gexit, gerror>>
    /\ UNCHANGED avars

\* The response bodies of the reporting endpoint: the items under data, at the
\* top level, or nowhere; fill pressures in tenths.
Bodies ==
    { [at |-> "data", items |-> <<3>>],
      [at |-> "top", items |-> <<6, 7>>],
      [at |-> "none", items |-> <<>>] }

\* Lines 112-116
extractItems(resp) == IF resp.at \in {"data", "top"} THEN resp.items ELSE <<>>

RECURSIVE SumSeq(_)
SumSeq(s) == IF s = <<>> THEN 0 ELSE Head(s) + SumSeq(Tail(s))

Min(a, b) == IF a < b THEN a ELSE b
Max(a, b) == IF a > b THEN a ELSE b

\* Lines 124-126: Math.min(1, Math.max(0, sum)), 10 tenths being 1
FillOf(resp) ==
    [fill |-> Min(10, Max(0, SumSeq(extractItems(resp)))), count |-> Len(extractItems(resp))]

\* Line 144: the row of a request that returned.
RowOk(resp) ==
    [kind |-> "ok", fill_rate |-> FillOf(resp).fill, rows_seen |-> FillOf(resp).count,
     error |-> "none", statuses |-> statuses, loginFailed |-> loginFailed]

\* Lines 146-148: the row of a request that threw; the loop goes on.
Caught(message, byLogin) ==
    /\ rows' = Append(rows, [kind |-> "error", fill_rate |-> 0, rows_seen |-> 0,
                             error |-> message, statuses |-> statuses,
                             loginFailed |-> byLogin])
    /\ gpc' = "loop"

\* login(), lines 66-78: the response sets a session cookie.
LoginOk ==
    /\ gpc = "login"
    /\ sessionCookie' = "session"
    /\ logins' = logins + 1
    /\ relogins' = IF relogin THEN relogins + 1 ELSE relogins
    /\ IF relogin
       THEN retried' = TRUE /\ gpc' = "direct"    \* line 94: direct(path, options, true)
       ELSE retried' = retried /\ gpc' = "send"
    /\ relogin' = FALSE
    /\ UNCHANGED <<configOk, req, sends, statuses, loginFailed, rows, gexit, gerror>>
    /\ UNCHANGED avars

\* login() throws: the transport failed, or the response carries no session
\* cookie (line 75).
LoginFail ==
    /\ gpc = "login"
    /\ logins' = logins + 1
    /\ relogins' = IF relogin THEN relogins + 1 ELSE relogins
    /\ loginFailed' = TRUE
    /\ relogin' = FALSE
    /\ \E message \in {"fetch failed", "Login failed"} : Caught(message, TRUE)
    /\ UNCHANGED <<configOk, sessionCookie, req, retried, sends, statuses, gexit, gerror>>
    /\ UNCHANGED avars

\* Send without the retried test: every 401 logs in again and retries.
SendRetryAlways ==
    /\ gpc = "send"
    /\ sends' = sends + 1
    /\ \E status \in {200, 401, 500} :
         /\ statuses' = Append(statuses, status)
         /\ IF status = 401
            THEN sessionCookie' = "null" /\ relogin' = TRUE /\ gpc' = "login"
            ELSE UNCHANGED <<sessionCookie, relogin>> /\ gpc' = "json"
    /\ UNCHANGED <<configOk, req, retried, logins, relogins, loginFailed, rows, gexit, gerror>>
    /\ UNCHANGED avars

\* Lines 83-95: the request is sent and answered; a 401 on a call that is not
\* the retry drops the cookie and logs in again.
Send ==
    /\ gpc = "send"
    /\ sends' = sends + 1
    /\ \E status \in {200, 401, 500} :
         /\ statuses' = Append(statuses, status)
         /\ IF status = 401 /\ ~retried
            THEN sessionCookie' = "null" /\ relogin' = TRUE /\ gpc' = "login"
            ELSE UNCHANGED <<sessionCookie, relogin>> /\ gpc' = "json"
    /\ UNCHANGED <<configOk, req, retried, logins, relogins, loginFailed, rows, gexit, gerror>>
    /\ UNCHANGED avars

\* Line 83: fetch throws.
SendFail ==
    /\ gpc = "send"
    /\ sends' = sends + 1
    /\ Caught("fetch failed", loginFailed)
    /\ UNCHANGED <<configOk, sessionCookie, req, retried, relogin, logins, relogins, statuses,
                   loginFailed, gexit, gerror>>
    /\ UNCHANGED avars

\* Line 96 and lines 124-144: the body parses and the row is pushed.
JsonOk ==
    /\ gpc = "json"
    /\ \E resp \in Bodies : rows' = Append(rows, RowOk(resp))
    /\ gpc' = "loop"
    /\ UNCHANGED <<configOk, sessionCookie, req, retried, relogin, sends, logins, relogins, statuses,
                   loginFailed, gexit, gerror>>
    /\ UNCHANGED avars

\* Line 96: res.json() throws on a body that is no JSON.
JsonFail ==
    /\ gpc = "json"
    /\ Caught("Unexpected token", loginFailed)
    /\ UNCHANGED <<configOk, sessionCookie, req, retried, relogin, sends, logins, relogins, statuses,
                   loginFailed, gexit, gerror>>
    /\ UNCHANGED avars

\* Lines 154-157: the loops are over and the forecast is written.
Finish ==
    /\ gpc = "loop"
    /\ req = MaxRequests
    /\ gpc' = "exited"
    /\ gexit' = 0
    /\ UNCHANGED <<configOk, sessionCookie, req, retried, relogin, sends, logins, relogins, statuses,
                   loginFailed, rows, gerror>>
    /\ UNCHANGED avars

\* Lines 155-156 throw and main().catch exits with status 1 (lines 160-163).
FinishFail ==
    /\ gpc = "loop"
    /\ req = MaxRequests
    /\ gpc' = "exited"
    /\ gexit' = 1
    /\ gerror' = "write failed"
    /\ UNCHANGED <<configOk, sessionCookie, req, retried, relogin, sends, logins, relogins, statuses,
                   loginFailed, rows>>
    /\ UNCHANGED avars

\* ------------------------------------------------------- specifications

\* The archiver run again and again on an empty logs/ tree.
Init ==
    /\ env \in SUBSET (1..NumUrls)
    /\ served \in {[shape |-> "other", result |-> <<>>]}
                    \cup {[shape |-> "feed", result |-> f] : f \in ArchiveFeeds}
    /\ Fs0
    /\ run = 0 /\ dateISO = 1 /\ pc = "idle" /\ exitCode = 0
    /\ Locals0
    /\ GInit

Next ==
    \/ StartRun \/ Check
    \/ FetchOk \/ FetchFail \/ FetchAllFailed
    \/ Normalize
    \/ Mkdir \/ MkdirFail
    \/ WriteJson \/ WriteJsonFail
    \/ WriteCsv \/ WriteCsvFail

vars == <<avars, gvars>>

Spec == Init /\ [][Next]_vars

\* The generator alone, beside an archiver that is never started.
InitGen ==
    /\ env = {} /\ served = [shape |-> "other", result |-> <<>>]
    /\ Fs0
    /\ run = 0 /\ dateISO = 1 /\ pc = "idle" /\ exitCode = 0
    /\ Locals0
    /\ GInit

NextGen ==
    \/ Startup \/ BeginRequest \/ DirectEntry
    \/ LoginOk \/ LoginFail
    \/ Send \/ SendFail
    \/ JsonOk \/ JsonFail
    \/ Finish \/ FinishFail

SpecGen == InitGen /\ [][NextGen]_vars

\* main() from the point where getJSON has returned the body of the only
\* configured source, on an empty logs/ tree, for every feed of the given set.
PipelineInit(feeds) ==
    /\ env = {1}
    /\ served \in {[shape |-> "other", result |-> <<>>]}
                    \cup {[shape |-> "feed", result |-> f] : f \in feeds}
    /\ Fs0
    /\ run = 1 /\ dateISO \in Days /\ pc = "normalize" /\ exitCode = 0
    /\ u = 1 /\ errs = <<>> /\ raw = Body(served.shape, 1, served.result)
    /\ norm = NoNorm /\ dataToday = EmptyObj
    /\ error = NoError /\ attempts = <<1>> /\ sawJson = FALSE
    /\ configOk = TRUE
    /\ sessionCookie = "null"
    /\ gpc = "start" /\ req = 0 /\ rows = <<>> /\ gexit = 0 /\ gerror = "none"
    /\ Request0

NextPipeline == Normalize \/ Mkdir \/ WriteJson \/ WriteCsv

\* Every feed within the bounds over the names and values of the normalizer's
\* cases.
InitPipeline ==
    PipelineInit(FeedsOf([du_name : RawNames, fill_rate : RawValues], MaxDays, MaxRows))

SpecPipeline == InitPipeline /\ [][NextPipeline]_vars

\* Every feed within the bounds over the names of the ordering cases, with
\* values that are finite or no number.
InitOrder ==
    PipelineInit(FeedsOf([du_name : OrderNames, fill_rate : OrderValues], MaxDays, MaxRows))

SpecOrder == InitOrder /\ [][NextPipeline]_vars

\* ------------------------------------------------------------ properties

\* The feed as the claims read it: the rows by position (day-record, row) in
\* input order, in the day-records whose date parses.
Result == raw.result

Positions ==
    UNION { {<<i, j>> : j \in 1..Len(Result[i].rows)} :
              i \in {k \in 1..Len(Result) : ~DateIsInvalid(Result[k].date)} }

Before(p, q) == p[1] < q[1] \/ (p[1] = q[1] /\ p[2] < q[2])

RowAt(p) == Result[p[1]].rows[p[2]]
NameAt(p) == ScreenName(RowAt(p))
IsoAt(p) == ToISODate(Result[p[1]].date)
ValueAt(p) == ToNumber(RowAt(p).fill_rate)

Named == {p \in Positions : NameAt(p) # <<>>}

\* The rows whose value parses as a finite number.
FiniteRows == {p \in Named : ValueAt(p).t = "fin"}

\* normalize has returned in the current process.
Normalized ==
    \/ pc \in {"mkdir", "writeJson", "writeCsv"}
    \/ pc = "exited" /\ error.kind \in {"mkdir", "write json", "write csv"}
    \/ pc = "exited" /\ exitCode = 0 /\ ~sawJson

Range(s) == {s[i] : i \in 1..Len(s)}

HasValue(s, iso) == s \in DOMAIN norm.map /\ iso \in DOMAIN norm.map[s]

JsonWriters(d) == {w.run : w \in {x \in writes : x.date = d /\ x.file = "json"}}

LaterInvocation == pc # "idle" /\ ExistsJson /\ run \notin JsonWriters(dateISO)

AtMostOneWriter == \A d \in Days : Cardinality({w.run : w \in {x \in writes : x.date = d}}) <= 1

\* C1: once the JSON artifact of a date exists, a later invocation for that date
\* ends at once with status 0, fetches nothing and leaves both artifacts as they
\* are; over all invocations at most one writes for a date.
C1_Idempotent ==
    /\ [](LaterInvocation =>
            /\ attempts = <<>>
            /\ pc \in {"check", "exited"}
            /\ pc = "exited" => exitCode = 0
            /\ \A w \in writes : w.run # run)
    /\ []AtMostOneWriter
    /\ [][LaterInvocation =>
            /\ fsJson' = fsJson /\ fsCsv' = fsCsv
            /\ pc = "check" => (pc' = "exited" /\ exitCode' = 0)]_vars

C1_Witness ==
    /\ run >= 2 /\ pc = "exited" /\ exitCode = 0 /\ sawJson
    /\ fsJson[dateISO].st = "full" /\ fsCsv[dateISO].st = "full"
    /\ JsonWriters(dateISO) = {1}

\* C2: no run ends leaving an inconsistent JSON/CSV pair: a run that ends with
\* status 0 on a date whose JSON artifact is complete leaves the CSV artifact of
\* that date complete too (a failed run is repaired by a later successful one).
C2_NoInconsistentPair ==
    (pc = "exited" /\ exitCode = 0 /\ fsJson[dateISO].st = "full")
        => fsCsv[dateISO].st = "full"

\* C3: getJSON calls fetch on the candidates in list order, once each; it returns
\* the body of the first candidate that succeeds and stops there; it throws only
\* when every candidate failed, and the error then lists every candidate with
\* its reason in attempt order.
C3_Fallback ==
    /\ attempts = SubSeq(urls, 1, Len(attempts))
    /\ Len(errs) <= Len(attempts)
    /\ \A i \in 1..Len(errs) : errs[i].url = urls[i] /\ errs[i].message \in FailReasons
    /\ raw # NoRaw =>
          /\ Len(attempts) = Len(errs) + 1
          /\ raw.generated_at = urls[Len(attempts)]
          /\ error.kind # "All sources failed"
    /\ raw = NoRaw => Len(attempts) = Len(errs)
    /\ error.kind = "All sources failed" =>
          /\ raw = NoRaw
          /\ Len(error.errs) = Len(urls)
          /\ error.errs = errs
          /\ attempts = urls

C3_Witness ==
    /\ Len(urls) >= 2
    /\ errs = <<[url |-> urls[1], message |-> "HTTP 500"]>>
    /\ raw # NoRaw /\ raw.generated_at = urls[2]
    /\ attempts = <<urls[1], urls[2]>>
    /\ pc = "exited" /\ exitCode = 0

AuthFailed(r) == r.loginFailed \/ r.statuses = <<401, 401>>

Present == {s \in Range(norm.screens) : HasValue(s, dateISO)}

\* C5: the JSON rows list the present screens in the first-seen order of
\* norm.screens, the CSV rows list the same screens in collation order, and
\* count is the number of JSON rows and of CSV rows.
C5_JsonFirstSeenCsvSorted ==
    (pc = "exited" /\ exitCode = 0 /\ ~sawJson) =>
        LET j == fsJson[dateISO].data
            c == fsCsv[dateISO].data
        IN  /\ [i \in 1..Len(j.rows) |-> j.rows[i].screen] = SelectSeqBy(norm.screens, Present)
            /\ {c.rows[i].screen : i \in 1..Len(c.rows)} = Present
            /\ \A i \in 1..(Len(c.rows) - 1) :
                  localeCompare(c.rows[i].screen, c.rows[i + 1].screen) <= 0
            /\ j.count = Len(j.rows) /\ j.count = Len(c.rows)

\* C6: map[screen][date] is present only if a row of that screen and date has a
\* value that parses as a finite number, and it is such a row's value.
C6_OnlyFiniteRetained ==
    Normalized =>
        \A s \in DOMAIN norm.map : \A iso \in DOMAIN norm.map[s] :
            \E p \in FiniteRows : NameAt(p) = s /\ IsoAt(p) = iso /\ norm.map[s][iso] = ValueAt(p)

FirstOf(name) ==
    CHOOSE p \in Named : NameAt(p) = name /\ \A q \in Named : NameAt(q) = name => ~Before(q, p)

\* C7: screens holds every trimmed non-empty name of a day-record with a parsable
\* date exactly once, in the order of the names' first occurrences.
C7_ScreensFirstSeen ==
    Normalized =>
        /\ Range(norm.screens) = {NameAt(p) : p \in Named}
        /\ \A i, j \in 1..Len(norm.screens) :
              i < j => /\ norm.screens[i] # norm.screens[j]
                       /\ Before(FirstOf(norm.screens[i]), FirstOf(norm.screens[j]))

C7_Witness ==
    /\ Normalized
    /\ norm.screens = <<<<"B">>, <<"A">>>>
    /\ \E p \in Named : RowAt(p).du_name = NameStr(<<" ", "A">>)

\* C8: for every (screen, date) with a valid row (a value that parses as a finite
\* number), map[screen][date] is the value of the last such row in input order.
C8_LastWriteWins ==
    Normalized =>
        \A p \in FiniteRows :
            (\A q \in FiniteRows : (NameAt(q) = NameAt(p) /\ IsoAt(q) = IsoAt(p)) => ~Before(p, q))
                => (HasValue(NameAt(p), IsoAt(p)) /\ norm.map[NameAt(p)][IsoAt(p)] = ValueAt(p))

RECURSIVE ValidDays(_)
ValidDays(days) ==
    IF days = <<>> THEN <<>>
    ELSE (IF DateIsInvalid(Head(days).date) THEN <<>> ELSE <<Head(days)>>) \o ValidDays(Tail(days))

\* C10: a day-record whose date does not parse contributes nothing: dates holds
\* the dates of the other day-records in order, every screen and every value
\* comes from a row of those, and the result is that of the feed without it.
C10_DateSkip ==
    Normalized =>
        LET good == ValidDays(Result)
        IN  /\ norm.dates = [i \in 1..Len(good) |-> ToISODate(good[i].date)]
            /\ Range(norm.screens) \subseteq {NameAt(p) : p \in Named}
            /\ \A s \in DOMAIN norm.map : \A iso \in DOMAIN norm.map[s] :
                  \E p \in Named : NameAt(p) = s /\ IsoAt(p) = iso /\ norm.map[s][iso] = ValueAt(p)
            /\ norm = normalize(Body(raw.shape, raw.generated_at, good))

C10_Witness ==
    /\ Normalized
    /\ Len(Result) = 2
    /\ DateIsInvalid(Result[1].date) /\ ~DateIsInvalid(Result[2].date)
    /\ Result[1].rows # <<>>
    /\ ScreenName(Result[1].rows[1]) # <<>>
    /\ ToNumber(Result[1].rows[1].fill_rate).t = "fin"
    /\ ScreenName(Result[1].rows[1]) \notin Range(norm.screens)
    /\ Len(norm.dates) = 1 /\ norm.screens # <<>>

====
